---- MODULE Spec2Model ----
(***************************************************************************)
(* A model of the binning subsystem of sed (sed/binning/utils.py and       *)
(* sed/binning/binning.py): the bin specification normalizer               *)
(* _simplify_binning_arguments, the per-partition histogram bin_partition  *)
(* with its two kernels and its jitter step, and the entry point           *)
(* bin_dataframe with its main loop; of the config loader parse_config    *)
(* and complete_dictionary (sed/core/config.py); and of MetaHandler.add    *)
(* (sed/core/metadata.py).                                                 *)
(*                                                                         *)
(* Numbers.  Floating-point values are modelled in fixed point: the        *)
(* integer k stands for the real number k / Den.  Den is a multiple of     *)
(* every bin count the model uses, so that np.linspace over an integer     *)
(* range is computed without rounding.                                     *)
(*                                                                         *)
(* Python values.  A Python object is a record [t, v]: t is the name of    *)
(* its type ("int", "str", "tuple", "list", "ndarray", "dict",             *)
(* "NoneType"), v its content.  isinstance(x, T) is a test on x.t.         *)
(***************************************************************************)
EXTENDS Integers, Sequences, FiniteSets, TLC

(* ----------------------------- bounds ---------------------------------- *)

\* the largest bin count per axis that the callers of the model pass
MaxCount == 3
\* range limits and bin edges are drawn from 0..MaxVal (in natural units)
MaxVal == 2
\* the largest number of rows of a partition
MaxRows == 2
\* the largest number of partitions of a table
MaxParts == 2
\* the largest n_cores
MaxCores == 2

(* ---------------------------- fixed point ------------------------------ *)

RECURSIVE Fact(_)
Fact(n) == IF n <= 1 THEN 1 ELSE n * Fact(n - 1)

\* the fixed-point denominator: a multiple of 4 and of 1..MaxCount, so that
\* halves of half bin widths are exact
Den == 4 * Fact(MaxCount)

\* the natural number n as a fixed-point value
Fx(n) == n * Den

(* --------------------------- Python values ----------------------------- *)

PyNone == [t |-> "NoneType", v |-> 0]
PyInt(n) == [t |-> "int", v |-> n]
PyStr(s) == [t |-> "str", v |-> s]
PyTuple(s) == [t |-> "tuple", v |-> s]
PyList(s) == [t |-> "list", v |-> s]
\* a float, as a fixed-point value
PyFloat(x) == [t |-> "float", v |-> x]
\* np.ndarray, one-dimensional, of fixed-point values
PyArr(s) == [t |-> "ndarray", v |-> s]
\* dict: the items in insertion order, each <<key, value>>
PyDict(items) == [t |-> "dict", v |-> items]

\* isinstance(x, collections.abc.Sequence): list, tuple and str are, an
\* ndarray and a dict are not
IsSequence(x) == x.t \in {"list", "tuple", "str"}

\* the outcome of a call: a returned value or a raised exception, with the
\* type of the exception and the message it carries
Return(val) == [status |-> "returned", exc |-> "", msg |-> "", value |-> val]
RaiseMsg(e, m) == [status |-> "raised", exc |-> e, msg |-> m, value |-> PyNone]
\* an exception raised by the interpreter or a library, its message left out
Raise(e) == RaiseMsg(e, "")
NoCall == [status |-> "none", exc |-> "", msg |-> "", value |-> PyNone]

(* ------------------------------ numpy ---------------------------------- *)

\* np.linspace(start, stop, num, endpoint=True) for num >= 0: num points,
\* start + i * (stop - start) / (num - 1), the last one set to stop
linspace(start, stop, num) ==
    [i \in 1..num |->
        IF i = num /\ num > 1 THEN stop
        ELSE IF num = 1 THEN start
        ELSE start + ((i - 1) * (stop - start)) \div (num - 1)]

(* --------------------- sed/binning/utils.py ---------------------------- *)

\* the elements of a list or tuple
Items(x) == x.v

\* all(isinstance(e, T) for e in x)
AllOfType(x, T) == \A i \in 1..Len(Items(x)) : Items(x)[i].t = T

\* a plausible slip of explode_bins: x points per axis instead of x + 1
explode_bins_short(counts, rngs) ==
    [i \in 1..Len(counts) |->
        PyArr(linspace(rngs[i].v[1], rngs[i].v[2], counts[i].v))]

\* the loop that explodes integer counts to arrays: for the i-th count x,
\* np.linspace(ranges[i][0], ranges[i][1], x + 1, endpoint=True)
explode_bins(counts, rngs) ==
    [i \in 1..Len(counts) |->
        PyArr(linspace(rngs[i].v[1], rngs[i].v[2], counts[i].v + 1))]

\* a plausible slip of unravel_axes: axes passed by the caller are kept
unravel_axes_keep(bins, axes) ==
    IF axes.t = "NoneType" THEN PyList([i \in 1..Len(bins.v) |-> bins.v[i][1]])
    ELSE axes

\* the loop over bins.items() that unravels a dict: axes starts as [] and
\* takes every key, bins_ takes every value, in the order of the items
unravel_axes(bins, axes) == PyList([i \in 1..Len(bins.v) |-> bins.v[i][1]])
unravel_bins(bins) == PyList([i \in 1..Len(bins.v) |-> bins.v[i][2]])

\* a plausible slip of canonical_pair: the "lists of bin centers and axes" of
\* the docstring, the midpoints of the edges
canonical_pair_centers(bins, axes) ==
    PyTuple(<<PyList([i \in 1..Len(Items(bins)) |->
                PyArr([j \in 1..(Len(Items(bins)[i].v) - 1) |->
                    (Items(bins)[i].v[j + 1] + Items(bins)[i].v[j]) \div 2])]),
              PyList(Items(axes))>>)

\* the value of "return list(bins), list(axes)": a 2-tuple of two lists
canonical_pair(bins, axes) == PyTuple(<<PyList(Items(bins)), PyList(Items(axes))>>)

\* _simplify_binning_arguments(bins, axes, ranges): the outcome of the call.
\* The value returned is the 2-tuple (list(bins), list(axes)).
_simplify_binning_arguments(bins, axes, ranges) ==
    LET \* a single axis name becomes a list of one name
        axes1 == IF axes.t = "str" THEN PyList(<<axes>>) ELSE axes
        \* a dict is unravelled to its keys (axes) and values (bins)
        axes2 == IF bins.t = "dict" THEN unravel_axes(bins, axes1) ELSE axes1
        bins2 == IF bins.t = "dict" THEN unravel_bins(bins) ELSE bins
    IN
    \* [bins] * len(axes): len(None) raises TypeError
    IF bins2.t = "int" /\ axes2.t \notin {"list", "tuple"} THEN Raise("TypeError")
    ELSE
    LET bins3 == IF bins2.t = "int"
                 THEN PyList([i \in 1..Len(Items(axes2)) |-> bins2])
                 ELSE bins2
    IN
    IF ~IsSequence(bins3) THEN RaiseMsg("TypeError", "Cannot interpret bins of type")
    ELSE IF axes2.t = "NoneType"
         THEN RaiseMsg("AttributeError", "Must define on which axes to bin")
    ELSE IF ~IsSequence(axes2) THEN RaiseMsg("TypeError", "Cannot interpret axes of type")
    ELSE IF ~AllOfType(axes2, "str")
         THEN RaiseMsg("TypeError", "Axes has to contain only strings!")
    \* tuples (start, end, num_bins) are expanded to ranges and counts
    ELSE IF AllOfType(bins3, "tuple") /\ Len(Items(bins3)) = 0 THEN Raise("IndexError")
    ELSE IF AllOfType(bins3, "tuple") /\ Len(Items(bins3)[1].v) # 3
         THEN RaiseMsg("AssertionError",
                       "Tuples as bins need to have format (start, end, num_bins).")
    ELSE IF AllOfType(bins3, "tuple")
            /\ \E i \in 1..Len(Items(bins3)) : Len(Items(bins3)[i].v) < 3
         THEN Raise("IndexError")
    ELSE
    LET tuples == AllOfType(bins3, "tuple")
        n == Len(Items(bins3))
        ranges4 == IF tuples
                   THEN PyList([i \in 1..n |->
                            PyTuple(<<Items(bins3)[i].v[1], Items(bins3)[i].v[2]>>)])
                   ELSE ranges
        bins4 == IF tuples
                 THEN PyList([i \in 1..n |-> Items(bins3)[i].v[3]])
                 ELSE bins3
        ints == AllOfType(bins4, "int")
    IN
    \* integer counts are exploded to arrays of count + 1 points
    IF ints /\ ranges4.t = "NoneType"
    THEN RaiseMsg("AttributeError",
                  "Must provide a range if bins is an integer or list of integers")
    ELSE IF ints /\ Len(Items(ranges4)) < n THEN Raise("IndexError")
    ELSE IF ints /\ \E i \in 1..n : Items(bins4)[i].v + 1 < 0 THEN Raise("ValueError")
    ELSE
    LET bins5 == IF ints
                 THEN PyList(explode_bins(Items(bins4), Items(ranges4)))
                 ELSE bins4
    IN
    IF ~AllOfType(bins5, "ndarray")
    THEN RaiseMsg("TypeError", "Could not interpret bins of type")
    ELSE IF Len(Items(axes2)) # Len(Items(bins5))
         THEN RaiseMsg("AttributeError",
                       "axes and bins must have the same number of elements")
    ELSE Return(canonical_pair(bins5, axes2))

\* bin_edges_to_bin_centers(bin_edges): (bin_edges[1:] + bin_edges[:-1]) / 2
bin_edges_to_bin_centers(e) ==
    [j \in 1..(Len(e) - 1) |-> (e[j + 1] + e[j]) \div 2]

(* -------------------------- the histogram ------------------------------ *)

\* the largest entry of a sequence of naturals, 0 for the empty one
MaxOf(s) == IF s = <<>> THEN 0 ELSE CHOOSE m \in {s[i] : i \in 1..Len(s)} : \A i \in 1..Len(s) : s[i] <= m

\* the cells of an array of the given shape: one index in 1..shape[i] per axis
Cells(shape) ==
    {c \in [1..Len(shape) -> 1..MaxOf(shape)] :
        \A i \in 1..Len(shape) : c[i] <= shape[i]}

\* the dense array of the given shape that counts, in each cell, the events
\* whose per-axis bin indices idx[r] name that cell
CountCells(idx, shape) ==
    [shape |-> shape,
     data |-> [c \in Cells(shape) |->
        Cardinality({r \in 1..Len(idx) : idx[r] = c})]]

\* a plausible slip of searchsorted_right: the edges below v, side "left"
searchsorted_left(e, v) == Cardinality({j \in 1..Len(e) : e[j] < v})

\* the number of edges e[j] with e[j] <= v: np.searchsorted(e, v, "right")
\* for edges in increasing order
searchsorted_right(e, v) == Cardinality({j \in 1..Len(e) : e[j] <= v})

\* a plausible slip of np_bin_index: the last bin is half-open like the others
np_bin_index_halfopen(e, v) == searchsorted_right(e, v)

\* np.histogramdd's bin of the value v on an axis with the edges e: the bins
\* are half-open [e[j], e[j+1]) except the last, which includes its right
\* edge; 0 and Len(e) stand for the values below and above the edges
np_bin_index(e, v) ==
    IF v = e[Len(e)] THEN searchsorted_right(e, v) - 1 ELSE searchsorted_right(e, v)

\* np.histogramdd(vals, bins=bins, range=ranges) for a sample of D columns:
\* the outcome of the call, returning the histogram
np_histogramdd(vals, D, bins, ranges) ==
    IF bins.t # "int" /\ Len(Items(bins)) # D THEN Raise("ValueError")
    ELSE
    LET b == IF bins.t = "int" THEN [i \in 1..D |-> bins] ELSE Items(bins) IN
    IF ranges.t # "NoneType" /\ Len(Items(ranges)) # D THEN Raise("ValueError")
    ELSE IF \E i \in 1..D : b[i].t \notin {"int", "ndarray"} THEN Raise("ValueError")
    ELSE IF \E i \in 1..D : b[i].t = "int" /\ b[i].v < 1 THEN Raise("ValueError")
    ELSE
    LET \* _get_outer_edges: the range given, else the extent of the data
        column(i) == {vals[r][i] : r \in 1..Len(vals)}
        first(i) == IF ranges.t # "NoneType" THEN Items(ranges)[i].v[1]
                    ELSE IF vals = <<>> THEN Fx(0)
                    ELSE CHOOSE v \in column(i) : \A w \in column(i) : v <= w
        last(i) == IF ranges.t # "NoneType" THEN Items(ranges)[i].v[2]
                   ELSE IF vals = <<>> THEN Fx(1)
                   ELSE CHOOSE v \in column(i) : \A w \in column(i) : w <= v
        lo(i) == IF first(i) = last(i) THEN first(i) - Den \div 2 ELSE first(i)
        hi(i) == IF first(i) = last(i) THEN last(i) + Den \div 2 ELSE last(i)
    IN
    IF \E i \in 1..D : b[i].t = "int" /\ first(i) > last(i) THEN Raise("ValueError")
    ELSE
    LET edges == [i \in 1..D |->
                    IF b[i].t = "int" THEN linspace(lo(i), hi(i), b[i].v + 1)
                    ELSE b[i].v]
    IN
    IF \E i \in 1..D : \E j \in 1..(Len(edges[i]) - 1) : edges[i][j] > edges[i][j + 1]
    THEN Raise("ValueError")
    ELSE
    LET idx == [r \in 1..Len(vals) |-> [i \in 1..D |-> np_bin_index(edges[i], vals[r][i])]]
    IN
    Return(CountCells(idx, [i \in 1..D |-> Len(edges[i]) - 1]))

\* the bin of v by a search over the edges e: the j with e[j] <= v < e[j+1],
\* the last bin for v on the rightmost edge, 0 for a value outside the edges
binsearch(e, v) ==
    IF v < e[1] \/ v > e[Len(e)] THEN 0
    ELSE IF v = e[Len(e)] THEN Len(e) - 1
    ELSE CHOOSE j \in 1..(Len(e) - 1) : e[j] <= v /\ v < e[j + 1]

\* numba_histogramdd(vals, bins=bins, ranges=ranges): the accelerated kernel.
\* Integer counts are spaced linearly over their ranges; every event is
\* placed by a search over the edges of every axis and skipped when it lies
\* outside the edges of any axis.
numba_histogramdd(vals, D, bins, ranges) ==
    LET b == IF bins.t = "int" THEN [i \in 1..D |-> bins] ELSE Items(bins) IN
    IF Len(b) # D THEN Raise("ValueError")
    ELSE IF \E i \in 1..D : b[i].t \notin {"int", "ndarray"} THEN Raise("TypeError")
    ELSE IF \E i \in 1..D : b[i].t = "int" /\ ranges.t = "NoneType"
         THEN Raise("ValueError")
    ELSE
    LET edges == [i \in 1..D |->
                    IF b[i].t = "int"
                    THEN linspace(Items(ranges)[i].v[1], Items(ranges)[i].v[2],
                                  b[i].v + 1)
                    ELSE b[i].v]
        idx == [r \in 1..Len(vals) |-> [i \in 1..D |-> binsearch(edges[i], vals[r][i])]]
    IN
    Return(CountCells(idx, [i \in 1..D |-> Len(edges[i]) - 1]))

(* -------------------- sed/binning/binning.py --------------------------- *)

\* the columns of every partition, in table order
Columns == <<"x", "y">>

\* the assignment "a, b, c = value" of n names: value must hold n items
unpack(value, n) ==
    IF Len(Items(value)) = n THEN Return(value)
    ELSE IF Len(Items(value)) < n
         THEN RaiseMsg("ValueError", "not enough values to unpack")
    ELSE RaiseMsg("ValueError", "too many values to unpack")

\* part.columns.get_loc(axis): the position of the column, 0 when missing
get_loc(axis) ==
    IF \E i \in 1..Len(Columns) : Columns[i] = axis
    THEN CHOOSE i \in 1..Len(Columns) : Columns[i] = axis
    ELSE 0

\* part.values[:, col_id]: the columns col_id of every row, in that order
select_columns(part, col_id) ==
    [r \in 1..Len(part) |-> [i \in 1..Len(col_id) |-> part[r][col_id[i]]]]

\* a plausible slip of simplify_and_unpack: the arguments are taken as they
\* are, as with skip_test, and left for the kernels to reject
simplify_and_unpack_unchecked(bins_, axes_, ranges_) ==
    Return(PyTuple(<<bins_, axes_, ranges_>>))

\* the statement "bins, axes, ranges = _simplify_binning_arguments(bins,
\* axes, ranges)" of bin_partition and of bin_dataframe: the three items, or
\* the exception of the normalizer or of the assignment
simplify_and_unpack(bins_, axes_, ranges_) ==
    LET simplified == _simplify_binning_arguments(bins_, axes_, ranges_) IN
    IF simplified.status = "raised" THEN simplified
    ELSE unpack(simplified.value, 3)

\* the product of two fixed-point values, and the absolute value
Mul(a, b) == (a * b) \div Den
Abs(a) == IF a < 0 THEN 0 - a ELSE a

\* d.get(key, default) for a dict d with str keys
dict_get(d, key, default) ==
    IF \E i \in 1..Len(d.v) : d.v[i][1] = PyStr(key)
    THEN d.v[CHOOSE i \in 1..Len(d.v) : d.v[i][1] = PyStr(key)][2]
    ELSE default

\* a plausible slip of apply_jitter_on_column: the noise is added to the
\* column of the caller's partition as well
apply_jitter_in_place(frames, amp, col, mode, noise) ==
    LET shifted(f) == [r \in 1..Len(f) |->
                          [f[r] EXCEPT ![col] = f[r][col] + Mul(amp, noise[r])]]
    IN IF mode \in {"uniform", "normal"}
       THEN [part |-> [r \in 1..Len(frames.part) |->
                         [frames.part[r] EXCEPT
                            ![frames.col_id[col]] =
                                frames.part[r][frames.col_id[col]] + Mul(amp, noise[r])]],
             sel_part |-> shifted(frames.sel_part), col_id |-> frames.col_id]
       ELSE frames

\* apply_jitter_on_column(df, amp, col, mode) called on the frame sel_part:
\* df[col] += amp * noise for the modes "uniform" and "normal", nothing for
\* any other mode.  noise[r] is the number drawn for row r, col the position
\* of the column in sel_part.  frames holds the two frames alive in
\* bin_partition, the caller's part and the copy sel_part; only the frame
\* passed as df is written.
apply_jitter_on_column(frames, amp, col, mode, noise) ==
    IF mode \in {"uniform", "normal"}
    THEN [frames EXCEPT !.sel_part =
            [r \in 1..Len(frames.sel_part) |->
                [frames.sel_part[r] EXCEPT ![col] = frames.sel_part[r][col] + Mul(amp, noise[r])]]]
    ELSE frames

\* a plausible slip of jitter_binsize: the extent of the axis is not divided
\* into its bins
jitter_binsize_extent(bins_, ranges_, ax_index) ==
    IF bins_.t \notin {"list", "tuple"} THEN Raise("TypeError")
    ELSE
    LET _bin == Items(bins_)[ax_index] IN
    IF _bin.t = "int"
    THEN IF ranges_.t \notin {"list", "tuple"} THEN Raise("TypeError")
         ELSE Return(Abs(Items(ranges_)[ax_index].v[2] - Items(ranges_)[ax_index].v[1]))
    ELSE IF Len(_bin.v) < 3 THEN Raise("IndexError")
    ELSE Return(Abs(_bin.v[1] - _bin.v[Len(_bin.v)]))

\* the size of the bins of an axis as the jitter step takes it: the range
\* over the count, or the distance of the first two edges, which the
\* assertion compares with the distance of the edges [-3] and [-2]
jitter_binsize(bins_, ranges_, ax_index) ==
    IF bins_.t \notin {"list", "tuple"} THEN Raise("TypeError")
    ELSE
    LET _bin == Items(bins_)[ax_index] IN
    IF _bin.t = "int"
    THEN IF ranges_.t \notin {"list", "tuple"} THEN Raise("TypeError")
         ELSE IF _bin.v = 0 THEN Raise("ZeroDivisionError")
         ELSE Return(Abs(Items(ranges_)[ax_index].v[2] - Items(ranges_)[ax_index].v[1])
                        \div _bin.v)
    ELSE IF Len(_bin.v) < 3 THEN Raise("IndexError")
    ELSE IF Abs(_bin.v[1] - _bin.v[2])
                # Abs(_bin.v[Len(_bin.v) - 2] - _bin.v[Len(_bin.v) - 1])
         THEN RaiseMsg("AssertionError", "bins are not uniform. Cannot apply jitter.")
    ELSE Return(Abs(_bin.v[1] - _bin.v[2]))

\* the loop "for col, jpars in jitter.items()" from item n on: every item
\* whose column is an axis jitters that column of sel_part by
\* amplitude (default 0.5) times the bin size; noise[i][r] is the number
\* drawn for row r of axis i.  The outcome holds the frames after the loop.
RECURSIVE jitter_items(_, _, _, _, _, _, _)
jitter_items(frames, items, n, names, bins_, ranges_, noise) ==
    IF n > Len(items) THEN Return(frames)
    ELSE IF ~\E i \in 1..Len(names) : names[i] = items[n][1]
         THEN jitter_items(frames, items, n + 1, names, bins_, ranges_, noise)
    ELSE
    LET jpars == IF items[n][2].t = "NoneType" THEN PyDict(<<>>) ELSE items[n][2]
        amp == dict_get(jpars, "amplitude", PyFloat(Den \div 2))
        mode == dict_get(jpars, "mode", PyStr("uniform"))
        ax_index == CHOOSE i \in 1..Len(names) : names[i] = items[n][1]
        binsize == jitter_binsize(bins_, ranges_, ax_index)
    IN
    IF binsize.status = "raised" THEN binsize
    ELSE jitter_items(apply_jitter_on_column(frames, Mul(amp.v, binsize.value),
                                             ax_index, mode.v, noise[ax_index]),
                      items, n + 1, names, bins_, ranges_, noise)

\* the sample of bin_partition: part.values[:, col_id] without jitter; with
\* jitter, the values of the copy sel_part = part[axes].copy() after the
\* loop over the items of jitter, a list of names standing for a dict that
\* maps every name to None.  The outcome holds the frames after the step.
jitter_step(part, col_id, names, bins_, ranges_, jitter, noise) ==
    LET frames == [part |-> part, sel_part |-> select_columns(part, col_id),
                   col_id |-> col_id]
        items == IF jitter.t = "dict" THEN jitter.v
                 ELSE [i \in 1..Len(Items(jitter)) |-> <<Items(jitter)[i], PyNone>>]
    IN
    IF jitter.t = "NoneType" THEN Return(frames)
    ELSE jitter_items(frames, items, 1, names, bins_, ranges_, noise)

\* the dispatch over hist_mode at the end of bin_partition
dispatch_kernel(vals, D, bins_, ranges_, hist_mode) ==
    IF hist_mode = "numba" THEN numba_histogramdd(vals, D, bins_, ranges_)
    ELSE IF hist_mode = "numpy" THEN np_histogramdd(vals, D, bins_, ranges_)
    ELSE RaiseMsg("ValueError", "No binning method available")

\* bin_partition(part, bins, axes, ranges, hist_mode, jitter,
\* return_edges=False, skip_test) with the numbers noise that the random
\* generator draws: the outcome of the call, the caller's partition after
\* the call and the sample vals handed to the kernel (empty if none was)
bin_partition_run(part, bins_, axes_, ranges_, hist_mode, jitter, noise, skip_test) ==
    LET args == IF skip_test THEN Return(PyTuple(<<bins_, axes_, ranges_>>))
                ELSE simplify_and_unpack(bins_, axes_, ranges_)
    IN
    IF args.status = "raised" THEN [ret |-> args, part |-> part, vals |-> <<>>]
    ELSE
    LET names == Items(Items(args.value)[2])
        col_id == [i \in 1..Len(names) |-> get_loc(names[i].v)]
    IN
    IF \E i \in 1..Len(col_id) : col_id[i] = 0
    THEN [ret |-> Raise("KeyError"), part |-> part, vals |-> <<>>]
    ELSE
    LET step == jitter_step(part, col_id, names, Items(args.value)[1],
                            Items(args.value)[3], jitter, noise)
    IN
    IF step.status = "raised"
    THEN [ret |-> [step EXCEPT !.value = PyNone], part |-> part, vals |-> <<>>]
    ELSE [ret |-> dispatch_kernel(step.value.sel_part, Len(col_id), Items(args.value)[1],
                                  Items(args.value)[3], hist_mode),
          part |-> step.value.part,
          vals |-> step.value.sel_part]

\* bin_partition(part, bins, axes, ranges, hist_mode, jitter=None,
\* return_edges=False, skip_test): the outcome of the call
bin_partition(part, bins_, axes_, ranges_, hist_mode, skip_test) ==
    bin_partition_run(part, bins_, axes_, ranges_, hist_mode, PyNone, <<>>, skip_test).ret

\* np.zeros(shape)
zeros(shape) == [shape |-> shape, data |-> [c \in Cells(shape) |-> 0]]

\* _arraysum(array_a, array_b) for two arrays of the same shape
_arraysum(array_a, array_b) ==
    [shape |-> array_a.shape,
     data |-> [c \in Cells(array_a.shape) |-> array_a.data[c] + array_b.data[c]]]

\* functools.reduce(_arraysum, arrays) over the first n of one or more arrays
RECURSIVE reduce_arraysum(_, _)
reduce_arraysum(arrays, n) ==
    IF n = 1 THEN arrays[1]
    ELSE _arraysum(reduce_arraysum(arrays, n - 1), arrays[n])

\* the bound int(j * size / n_cores) of the slabs of the first axis
slab_bound(j, size, n_cores) == (j * size) \div n_cores

\* array[lo:hi, ...]: the rows lo..hi-1 of the first axis, counted from 0,
\* as far as the array has them
first_axis_slice(array, lo, hi) ==
    LET n == array.shape[1]
        from == IF lo < n THEN lo ELSE n
        to == IF hi < n THEN hi ELSE n
        shape == [array.shape EXCEPT ![1] = IF to > from THEN to - from ELSE 0]
    IN [shape |-> shape,
        data |-> [c \in Cells(shape) |-> array.data[[c EXCEPT ![1] = c[1] + from]]]]

\* an array of the shape from can be broadcast to the shape to
broadcasts(from, to) ==
    /\ Len(from) = Len(to)
    /\ \A i \in 1..Len(to) : from[i] = to[i] \/ from[i] = 1

\* target[lo:hi, ...] += other: the rows of the slab take the cells of other,
\* broadcast to the slab; ValueError if its shape cannot be broadcast
add_to_slice(target, lo, hi, other) ==
    LET slab == first_axis_slice(target, lo, hi)
        from == IF lo < target.shape[1] THEN lo ELSE target.shape[1]
    IN
    IF ~broadcasts(other.shape, slab.shape)
    THEN RaiseMsg("ValueError", "operands could not be broadcast together")
    ELSE Return([shape |-> target.shape,
                 data |-> [c \in Cells(target.shape) |->
                    IF c[1] > from /\ c[1] <= from + slab.shape[1]
                    THEN target.data[c]
                           + other.data[[i \in 1..Len(c) |->
                                IF other.shape[i] = 1 THEN 1
                                ELSE IF i = 1 THEN c[1] - from ELSE c[i]]]
                    ELSE target.data[c]]])

\* the combination of mode "fast" from slab j on: slab j of the first axis
\* of every core result is summed by its own task, and the sums are added to
\* the same slabs of full_result; writes lists the slabs written
RECURSIVE fast_combine(_, _, _, _, _, _)
fast_combine(full_result, core_results, size, n_cores, j, writes) ==
    IF j >= n_cores THEN [ret |-> Return(full_result), writes |-> writes]
    ELSE
    LET lo == slab_bound(j, size, n_cores)
        hi == slab_bound(j + 1, size, n_cores)
        combine_parts == [k \in 1..Len(core_results) |->
                            first_axis_slice(core_results[k], lo, hi)]
        combine_result == reduce_arraysum(combine_parts, Len(combine_parts))
        added == add_to_slice(full_result, lo, hi, combine_result)
    IN
    IF added.status = "raised" THEN [ret |-> added, writes |-> writes]
    ELSE fast_combine(added.value, core_results, size, n_cores, j + 1,
                      Append(writes, <<lo, hi>>))

\* the main loop of bin_dataframe from the batch that starts at partition i
\* (counted from 0) on.  st holds full_result, partition_results and the log
\* of the batches done: for each its kernel tasks, the slabs of full_result
\* written and the number of partial arrays still held after it.
\* combine_batch is the part of an iteration after dask.compute(*core_tasks):
\* computed holds the outcomes of the kernel tasks core_tasks
RECURSIVE main_loop(_, _, _, _, _, _, _, _, _, _)
RECURSIVE combine_batch(_, _, _, _, _, _, _, _, _, _, _, _)
main_loop(st, i, df_, bins_, axes_, ranges_, hist_mode, mode, n_cores, return_partitions) ==
    IF i >= Len(df_) THEN [ret |-> Return(PyNone), st |-> st]
    ELSE combine_batch(
            st, i,
            [j \in 1..(IF Len(df_) - i < n_cores THEN Len(df_) - i ELSE n_cores) |-> i + j - 1],
            [j \in 1..(IF Len(df_) - i < n_cores THEN Len(df_) - i ELSE n_cores) |->
                bin_partition(df_[i + j], bins_, axes_, ranges_, hist_mode, TRUE)],
            df_, bins_, axes_, ranges_, hist_mode, mode, n_cores, return_partitions)

combine_batch(st, i, core_tasks, computed, df_, bins_, axes_, ranges_, hist_mode, mode, n_cores, return_partitions) ==
    IF \E j \in 1..Len(computed) : computed[j].status = "raised"
    THEN [ret |-> computed[CHOOSE j \in 1..Len(computed) :
                            /\ computed[j].status = "raised"
                            /\ \A l \in 1..(j - 1) : computed[l].status # "raised"],
          st |-> st]
    ELSE
    LET core_results == [j \in 1..Len(computed) |-> computed[j].value]
        batch == [tasks |-> core_tasks, writes |-> <<>>, held |-> 0]
    IN
    IF return_partitions
    THEN main_loop([st EXCEPT !.partition_results = @ \o core_results,
                              !.log = Append(@, [batch EXCEPT
                                    !.held = Len(st.partition_results) + Len(core_results)])],
                   i + n_cores, df_, bins_, axes_, ranges_, hist_mode, mode, n_cores,
                   return_partitions)
    ELSE IF mode = "legacy"
    THEN main_loop([st EXCEPT
                        !.partition_results =
                            Append(@, reduce_arraysum(
                                          <<zeros(core_results[1].shape)>> \o core_results,
                                          Len(core_results) + 1)),
                        !.log = Append(@, [batch EXCEPT
                            !.held = Len(st.partition_results) + 1 + Len(core_results)])],
                   i + n_cores, df_, bins_, axes_, ranges_, hist_mode, mode, n_cores,
                   return_partitions)
    ELSE IF mode = "lean"
    THEN \* partition_result = reduce(_arraysum, core_results);
         \* full_result += partition_result
         LET added == add_to_slice(st.full_result, 0, st.full_result.shape[1],
                                   reduce_arraysum(core_results, Len(core_results)))
         IN
         IF added.status = "raised" THEN [ret |-> added, st |-> st]
         ELSE main_loop([st EXCEPT !.full_result = added.value,
                                   !.log = Append(@, [batch EXCEPT
                                        !.writes = <<<<0, st.full_result.shape[1]>>>>])],
                        i + n_cores, df_, bins_, axes_, ranges_, hist_mode, mode, n_cores,
                        return_partitions)
    ELSE IF mode = "fast"
    THEN LET combined == fast_combine(st.full_result, core_results,
                                      st.full_result.shape[1], n_cores, 0, <<>>)
         IN
         IF combined.ret.status = "raised" THEN [ret |-> combined.ret, st |-> st]
         ELSE main_loop([st EXCEPT !.full_result = combined.ret.value,
                                   !.log = Append(@, [batch EXCEPT
                                                         !.writes = combined.writes])],
                        i + n_cores, df_, bins_, axes_, ranges_, hist_mode, mode, n_cores,
                        return_partitions)
    ELSE [ret |-> RaiseMsg("ValueError", "Could not interpret mode"), st |-> st]

\* np.stack(arrays, axis=-1) of one or more arrays of the same shape
stack_last(arrays) ==
    LET shape == Append(arrays[1].shape, Len(arrays)) IN
    [shape |-> shape,
     data |-> [c \in Cells(shape) |->
                  arrays[c[Len(c)]].data[SubSeq(c, 1, Len(c) - 1)]]]

\* xr.DataArray(data, coords, dims): every coordinate of a dimension must
\* have the size of the data along that dimension
DataArray(data, coords, dims) ==
    IF \E i \in 1..Len(dims) :
            dims[i] \in DOMAIN coords /\ Len(coords[dims[i]]) # data.shape[i]
    THEN RaiseMsg("ValueError", "conflicting sizes for dimension")
    ELSE Return([shape |-> data.shape, data |-> data.data, dims |-> dims,
                 coords |-> coords])

\* the statements of bin_dataframe after its main loop (binning.py:366-390):
\* looped is the outcome of the loop; the stack of the partition results, the
\* sum of the partition results of mode "legacy" or full_result is wrapped
\* into the labeled array
package(looped, coords, names, mode, return_partitions) ==
    IF looped.ret.status = "raised" THEN [ret |-> looped.ret, log |-> looped.st.log]
    ELSE IF return_partitions
    THEN IF looped.st.partition_results = <<>>
         THEN [ret |-> Raise("ValueError"), log |-> looped.st.log]
         ELSE [ret |-> DataArray(stack_last(looped.st.partition_results),
                                 coords, Append(names, "df_part")),
               log |-> looped.st.log]
    ELSE IF mode = "legacy"
    THEN IF looped.st.partition_results = <<>>
         THEN [ret |-> Raise("IndexError"), log |-> looped.st.log]
         ELSE [ret |-> DataArray(
                          reduce_arraysum(
                              <<zeros(looped.st.partition_results[1].shape)>>
                                  \o looped.st.partition_results,
                              Len(looped.st.partition_results) + 1),
                          coords, names),
               log |-> looped.st.log]
    ELSE [ret |-> DataArray(looped.st.full_result, coords, names), log |-> looped.st.log]

\* the coordinates of the output (binning.py:251-262): for every axis its
\* array of bins, or np.linspace(r[0], r[1], n) for a count n over a range r
coordinate_axes(b, names, ranges_) ==
    LET n == IF Len(names) < Len(b) THEN Len(names) ELSE Len(b) IN
    [ax \in {names[i] : i \in 1..n} |->
        LET i == CHOOSE l \in 1..n : names[l] = ax /\ \A m \in (l + 1)..n : names[m] # ax
        IN IF b[1].t = "ndarray" THEN b[i].v
           ELSE linspace(Items(ranges_)[i].v[1], Items(ranges_)[i].v[2], b[i].v)]

\* the statements of bin_dataframe after the first one, with the three
\* items bins_, axes_ and ranges_ that the first statement unpacks: the
\* outcome of the call and the log of the batches of the main loop
bin_dataframe_body(df_, bins_, axes_, ranges_, hist_mode, mode, n_cores, return_partitions) ==
    LET b == Items(bins_)
        names == [i \in 1..Len(Items(axes_)) |-> Items(axes_)[i].v]
    IN
    IF b = <<>> THEN [ret |-> Raise("IndexError"), log |-> <<>>]
    ELSE IF b[1].t # "ndarray" /\ ranges_.t = "NoneType"
    THEN [ret |-> RaiseMsg("ValueError", "bins is not an array and range is none"),
          log |-> <<>>]
    ELSE package(main_loop([full_result |->
                                zeros([i \in 1..Len(b) |->
                                        IF b[1].t = "ndarray" THEN Len(b[i].v) ELSE b[i].v]),
                            partition_results |-> <<>>, log |-> <<>>],
                           0, df_, bins_, axes_, ranges_, hist_mode, mode, n_cores,
                           return_partitions),
                 coordinate_axes(b, names, ranges_), names, mode, return_partitions)

\* bin_dataframe(df, bins, axes, ranges, hist_mode, mode, jitter=None,
\* n_cores, return_partitions): the outcome of the call and the log of its
\* main loop.  The statements after the first one run only with the three
\* items unpacked.
bin_dataframe_run(df_, bins_, axes_, ranges_, hist_mode, mode, n_cores, return_partitions) ==
    LET args == simplify_and_unpack(bins_, axes_, ranges_) IN
    IF args.status = "raised" THEN [ret |-> args, log |-> <<>>]
    ELSE bin_dataframe_body(df_, Items(args.value)[1], Items(args.value)[2],
                            Items(args.value)[3], hist_mode, mode, n_cores,
                            return_partitions)

bin_dataframe(df_, bins_, axes_, ranges_, hist_mode, mode, n_cores, return_partitions) ==
    bin_dataframe_run(df_, bins_, axes_, ranges_, hist_mode, mode, n_cores,
                      return_partitions).ret

(* ------------------------ sed/core/config.py --------------------------- *)

\* A dict object is a function from ConfigKeys to its entries: Absent for a
\* key the dict does not hold, a scalar, or a reference to the dict object
\* that the entry holds.  A heap maps object ids to dict objects, so that two
\* entries can hold the same dict.
ConfigKeys == <<"a", "b">>
Absent == [t |-> "absent", v |-> 0]
Scalar(n) == [t |-> "scalar", v |-> n]
Ref(id) == [t |-> "dict", v |-> id]

\* the outcome of a call on the heap h
HeapReturn(h, id) == [status |-> "returned", exc |-> "", msg |-> "", value |-> Ref(id), heap |-> h]
HeapRaise(h, e, m) == [status |-> "raised", exc |-> e, msg |-> m, value |-> PyNone, heap |-> h]

\* complete_dictionary(dictionary, base_dictionary) on the dict objects d
\* and b of the heap h, from the n-th key of the base on: a key missing in d
\* is set to the entry of the base (for a dict, the very same object), a
\* dict in both is completed recursively, and a dict in the base against a
\* scalar in d raises ValueError.  The dictionary object itself is returned.
\* a completion of the top level only: a key missing in d is set to the entry
\* of the base, every other key is left as it is
complete_dictionary_shallow(h, dictionary, base_dictionary) ==
    HeapReturn([h EXCEPT ![dictionary] =
                    [k \in DOMAIN h[dictionary] |->
                        IF h[dictionary][k].t = "absent" THEN h[base_dictionary][k]
                        ELSE h[dictionary][k]]],
               dictionary)

RECURSIVE complete_keys(_, _, _, _)
complete_keys(h, d, b, n) ==
    IF n > Len(ConfigKeys) THEN HeapReturn(h, d)
    ELSE
    LET k == ConfigKeys[n]
        v == h[b][k]
    IN
    IF v.t = "absent" THEN complete_keys(h, d, b, n + 1)
    ELSE IF h[d][k].t = "absent"
         THEN complete_keys([h EXCEPT ![d][k] = v], d, b, n + 1)
    ELSE IF v.t = "scalar" THEN complete_keys(h, d, b, n + 1)
    ELSE IF h[d][k].t # "dict"
         THEN HeapRaise(h, "ValueError", "Cannot merge dictionaries. Mismatch on Key")
    ELSE
    LET inner == complete_keys(h, h[d][k].v, v.v, 1) IN
    IF inner.status = "raised" THEN inner
    ELSE complete_keys([inner.heap EXCEPT ![d][k] = inner.value], d, b, n + 1)

complete_dictionary(h, dictionary, base_dictionary) ==
    complete_keys(h, dictionary, base_dictionary, 1)

\* parse_config(config, folder_config, user_config, default_config) called
\* with four dicts: config is completed with the folder, the user and the
\* default dict in turn, and returned
parse_config(h, config, folder_config, user_config, default_config) ==
    LET with_folder == complete_dictionary(h, config, folder_config) IN
    IF with_folder.status = "raised" THEN with_folder
    ELSE
    LET with_user == complete_dictionary(with_folder.heap, with_folder.value.v, user_config) IN
    IF with_user.status = "raised" THEN with_user
    ELSE complete_dictionary(with_user.heap, with_user.value.v, default_config)

(* ------------------------ sed/core/metadata.py ------------------------- *)

\* the keys of the metadata dict _m of a MetaHandler: a name and the names
\* that "append" derives from it, f"{name}_{i}" for i = 1, 2
MetaNames == <<"n", "n_1", "n_2">>
Numbered(name, i) == MetaNames[i + 1]

\* the outcome of a call that returns None on the heap h
HeapNone(h) == [status |-> "returned", exc |-> "", msg |-> "", value |-> PyNone, heap |-> h]

\* copy.deepcopy of the entry e: a scalar is itself, a dict is copied into a
\* new object of the heap, key by key, with copies of its nested dicts
RECURSIVE deepcopy(_, _)
RECURSIVE deepcopy_keys(_, _, _, _)
deepcopy(h, e) ==
    IF e.t # "dict" THEN [heap |-> h, value |-> e]
    ELSE deepcopy_keys(Append(h, [k \in DOMAIN h[e.v] |-> Absent]), e.v, Len(h) + 1, 1)

deepcopy_keys(h, src, dst, n) ==
    IF n > Len(ConfigKeys) THEN [heap |-> h, value |-> Ref(dst)]
    ELSE LET c == deepcopy(h, h[src][ConfigKeys[n]]) IN
         deepcopy_keys([c.heap EXCEPT ![dst][ConfigKeys[n]] = c.value], src, dst, n + 1)

\* the first of name_1, name_2, ... that is not a key of the dict m
RECURSIVE first_free(_, _, _, _)
first_free(h, m, name, i) ==
    IF h[m][Numbered(name, i)].t = "absent" THEN Numbered(name, i)
    ELSE first_free(h, m, name, i + 1)

\* self._m[key] = deepcopy(entry)
store_copy(h, m, key, entry) ==
    LET c == deepcopy(h, entry) IN HeapNone([c.heap EXCEPT ![m][key] = c.value])

\* complete_dictionary(self._m[name], deepcopy(entry)): the existing dict is
\* completed with a copy of the entry
merge_entry(h, m, name, entry) ==
    LET c == deepcopy(h, entry)
        done == complete_dictionary(c.heap, h[m][name].v, c.value.v)
    IN IF done.status = "raised" THEN done ELSE HeapNone(done.heap)

\* MetaHandler.add(entry, name, duplicate_policy) on the handler whose _m is
\* the dict object m
add(h, m, entry, name, duplicate_policy) ==
    IF h[m][name].t = "absent" \/ duplicate_policy = "overwrite"
    THEN store_copy(h, m, name, entry)
    ELSE IF duplicate_policy = "raise"
    THEN HeapRaise(h, "DuplicateEntryError", "an entry already exists in metadata")
    ELSE IF duplicate_policy = "append"
    THEN store_copy(h, m, first_free(h, m, name, 1), entry)
    ELSE IF duplicate_policy = "merge"
    THEN IF h[m][name].t = "dict"
         THEN IF entry.t # "dict"
              THEN HeapRaise(h, "ValueError",
                             "Cannot merge dictionary with non-dictionary entry!")
              ELSE merge_entry(h, m, name, entry)
         ELSE store_copy(h, m, name, entry)
    ELSE HeapRaise(h, "ValueError", "could not interpret duplication handling method")

(* ------------------------------ state ---------------------------------- *)

VARIABLES
    df,      \* the partitioned table: a sequence of partitions, each a
             \* sequence of rows, each row one value per column of Columns
    bins,    \* the bins argument of the calls, a Python value
    axes,    \* the axes argument of the calls, a Python value
    ranges,  \* the ranges argument of the calls, a Python value
    call,    \* the last call made: its name, its other arguments and the
             \* numbers its random generator drew
    ret,     \* the outcome of the last call
    vals,    \* the sample that the last bin_partition handed to its kernel
    heap     \* the dict objects of the config calls: object id -> dict

vars == <<df, bins, axes, ranges, call, ret, vals, heap>>

NoArgs ==
    [op |-> "none", k |-> 0, hist_mode |-> "", skip_test |-> FALSE,
     mode |-> "", n_cores |-> 0, return_partitions |-> FALSE,
     jitter |-> PyNone, noise |-> <<>>,
     entry |-> Absent, name |-> "", duplicate_policy |-> ""]

(* --------------------------- the inputs -------------------------------- *)

\* the sequences of n distinct column names
NameSeqs(n) ==
    {s \in [1..n -> {Columns[i] : i \in 1..Len(Columns)}] :
        \A i, j \in 1..n : i # j => s[i] # s[j]}

\* a list of axis names
PyNames(s) == PyList([i \in 1..Len(s) |-> PyStr(s[i])])

\* the (low, high) pairs the callers pass: ascending, empty and descending
Ranges == {<<Fx(lo), Fx(hi)>> : lo \in 0..1, hi \in 0..MaxVal}

PyRanges(rngs) == PyList([i \in 1..Len(rngs) |-> PyTuple(rngs[i])])

\* the forms of the bins argument
BinForms == {"int", "ints", "tuples", "arrays", "dict", "dict_tuples", "dict_arrays"}

\* the bins argument of form `form` for the counts and ranges of n axes;
\* names are the keys of the dict form
MkBins(form, counts, rngs, names) ==
    CASE form = "int" -> PyInt(counts[1])
      [] form = "ints" -> PyList([i \in 1..Len(counts) |-> PyInt(counts[i])])
      [] form = "tuples" ->
            PyList([i \in 1..Len(counts) |->
                PyTuple(<<rngs[i][1], rngs[i][2], PyInt(counts[i])>>)])
      [] form = "arrays" ->
            PyList([i \in 1..Len(counts) |->
                PyArr(linspace(rngs[i][1], rngs[i][2], counts[i] + 1))])
      [] form = "dict" ->
            PyDict([i \in 1..Len(counts) |-> <<PyStr(names[i]), PyInt(counts[i])>>])
      [] form = "dict_tuples" ->
            PyDict([i \in 1..Len(counts) |->
                <<PyStr(names[i]), PyTuple(<<rngs[i][1], rngs[i][2], PyInt(counts[i])>>)>>])
      [] form = "dict_arrays" ->
            PyDict([i \in 1..Len(counts) |->
                <<PyStr(names[i]), PyArr(linspace(rngs[i][1], rngs[i][2], counts[i] + 1))>>])

\* the forms of the axes argument: omitted, one name, a list of names
AxesForms == {"none", "str", "list"}

MkAxes(form, names) ==
    CASE form = "none" -> PyNone
      [] form = "str" -> PyStr(names[1])
      [] form = "list" -> PyNames(names)

(* ------------------- the normalizer called alone ----------------------- *)

InitNormalizer ==
    /\ df = <<>>
    /\ \E n \in 1..Len(Columns), m \in 1..Len(Columns) :
       \E form \in BinForms, aform \in AxesForms, given \in BOOLEAN :
       \E counts \in [1..n -> 1..MaxCount], rngs \in [1..n -> Ranges] :
       \E keys \in NameSeqs(n), names \in NameSeqs(m) :
          /\ bins = MkBins(form, counts, rngs, keys)
          /\ axes = MkAxes(aform, names)
          /\ ranges = IF given THEN PyRanges(rngs) ELSE PyNone
    /\ call = NoArgs
    /\ ret = NoCall
    /\ vals = <<>>
    /\ heap = <<>>

\* a caller invokes _simplify_binning_arguments(bins, axes, ranges), once
Simplify ==
    /\ call.op = "none"
    /\ call' = [NoArgs EXCEPT !.op = "_simplify_binning_arguments"]
    /\ ret' = _simplify_binning_arguments(bins, axes, ranges)
    /\ UNCHANGED <<df, bins, axes, ranges, vals, heap>>

NextNormalizer == Simplify

SpecNormalizer == InitNormalizer /\ [][NextNormalizer]_vars

(* ------------------- bin_partition called alone ------------------------ *)

\* the values of the events: the half-integers from -1/2 to MaxVal + 1/2,
\* which lie on the edges, inside the bins and outside the ranges
Vals == {k * (Den \div 2) : k \in (-1)..(2 * MaxVal + 1)}

\* the row of an event with the value v in column x; column y mirrors it
MkRow(v) == <<v, Fx(MaxVal) - v>>

\* the partitions of at most MaxRows rows, the rows in ascending order of x
\* (a histogram does not depend on the order of the rows)
Parts ==
    UNION {{[r \in 1..n |-> MkRow(s[r])] :
              s \in {t \in [1..n -> Vals] : \A i \in 1..(n - 1) : t[i] <= t[i + 1]}} :
           n \in 0..MaxRows}

\* the ranges of a valid bin specification: low < high
ValidRanges == {r \in Ranges : r[1] < r[2]}

\* the strictly increasing sequence of the elements of a set of numbers
Ascending(S) ==
    CHOOSE e \in [1..Cardinality(S) -> S] : \A i \in 1..(Cardinality(S) - 1) : e[i] < e[i + 1]

\* explicit edge arrays: two or more edges out of 0..MaxVal+1, uniform or not
EdgeArrays ==
    {Ascending(S) : S \in {T \in SUBSET {Fx(k) : k \in 0..(MaxVal + 1)} : Cardinality(T) >= 2}}

\* what the callers pass for axis i: everything for the first axis, two bin
\* specifications of each form for every further axis
AxisCounts(i) == IF i = 1 THEN 1..MaxCount ELSE 1..2
AxisRanges(i) == IF i = 1 THEN ValidRanges ELSE {<<Fx(0), Fx(MaxVal)>>}
AxisEdges(i) ==
    IF i = 1 THEN EdgeArrays
    ELSE {<<Fx(0), Fx(MaxVal)>>, <<Fx(0), Fx(1), Fx(MaxVal + 1)>>}

PyEdges(e) == PyList([i \in 1..Len(e) |-> PyArr(e[i])])

InitPartition ==
    /\ \E part \in Parts : df = <<part>>
    /\ \E n \in 1..Len(Columns) :
       \E names \in NameSeqs(n) :
          /\ axes = PyNames(names)
          /\ \/ \E form \in {"int", "ints", "tuples"} :
                \E counts \in {c \in [1..n -> 1..MaxCount] :
                                  \A i \in 1..n : c[i] \in AxisCounts(i)} :
                \E rngs \in {g \in [1..n -> ValidRanges] :
                                  \A i \in 1..n : g[i] \in AxisRanges(i)} :
                   /\ bins = MkBins(form, counts, rngs, names)
                   /\ ranges = PyRanges(rngs)
             \/ \E e \in {g \in [1..n -> EdgeArrays] : \A i \in 1..n : g[i] \in AxisEdges(i)} :
                   /\ bins = PyEdges(e)
                   /\ ranges = PyNone
    /\ call = NoArgs
    /\ ret = NoCall
    /\ vals = <<>>
    /\ heap = <<>>

\* the table of eleven events 0, 1, ..., 10 binned into 10 bins over (0, 10)
InitEdgeScenario ==
    /\ df = <<[r \in 1..11 |-> MkRow(Fx(r - 1))]>>
    /\ bins = PyInt(10)
    /\ axes = PyNames(<<"x">>)
    /\ ranges = PyRanges(<<<<Fx(0), Fx(10)>>>>)
    /\ call = NoArgs
    /\ ret = NoCall
    /\ vals = <<>>
    /\ heap = <<>>

\* bins and ranges are in a form the kernels take: counts with their ranges,
\* or edge arrays
Prepared ==
    \/ bins.t = "int" /\ ranges.t = "list"
    \/ bins.t = "list" /\ AllOfType(bins, "int") /\ ranges.t = "list"
    \/ bins.t = "list" /\ AllOfType(bins, "ndarray")

\* a caller invokes bin_partition on partition k, once; skip_test is set only
\* by callers that hold prepared arguments
BinPartition ==
    \E k \in 1..Len(df), hist_mode \in {"numba", "numpy", "numexpr"},
       skip_test \in BOOLEAN :
        /\ call.op = "none"
        /\ skip_test => Prepared
        /\ call' = [NoArgs EXCEPT !.op = "bin_partition", !.k = k,
                                  !.hist_mode = hist_mode, !.skip_test = skip_test]
        /\ \E run \in {bin_partition_run(df[k], bins, axes, ranges, hist_mode, PyNone,
                                          <<>>, skip_test)} :
              /\ ret' = run.ret
              /\ df' = [df EXCEPT ![k] = run.part]
              /\ vals' = run.vals
        /\ UNCHANGED <<bins, axes, ranges, heap>>

NextPartition == BinPartition

SpecPartition == (InitPartition \/ InitEdgeScenario) /\ [][NextPartition]_vars

(* ------------------ bin_partition called with jitter ------------------- *)

\* the partitions that are binned with jitter: one event inside the ranges,
\* and one event on each end of them
JitterParts == {<<MkRow(Fx(1))>>, <<MkRow(Fx(0)), MkRow(Fx(MaxVal))>>}

\* the amplitudes that callers write into a jitter specification
Amplitudes == {Den \div 2, Fx(1), Fx(2)}

\* the parameters of one jittered axis: None, or a dict with an amplitude,
\* a mode ("gaussian" is a mode the code does not know), or both
JitterPars ==
    {PyNone}
        \cup {PyDict(<<<<PyStr("amplitude"), PyFloat(a)>>>>) : a \in Amplitudes}
        \cup {PyDict(<<<<PyStr("mode"), PyStr(m)>>>>) : m \in {"uniform", "normal", "gaussian"}}
        \cup {PyDict(<<<<PyStr("amplitude"), PyFloat(a)>>, <<PyStr("mode"), PyStr(m)>>>>) :
                a \in Amplitudes, m \in {"uniform", "normal"}}

\* the jitter arguments: a list of column names, or a dict from one column
\* name to its parameters
JitterSpecs ==
    UNION {{PyNames(s) : s \in NameSeqs(m)} : m \in 1..Len(Columns)}
        \cup {PyDict(<<<<PyStr(Columns[c]), jpars>>>>) :
                c \in 1..Len(Columns), jpars \in JitterPars}

\* the parameters that the jitter argument holds for the column name, and
\* whether it holds any
Jittered(jitter, name) ==
    IF jitter.t = "dict" THEN \E i \in 1..Len(jitter.v) : jitter.v[i][1] = PyStr(name)
    ELSE \E i \in 1..Len(jitter.v) : jitter.v[i] = PyStr(name)
ParsOf(jitter, name) ==
    IF jitter.t = "dict" /\ dict_get(jitter, name, PyNone).t = "dict"
    THEN dict_get(jitter, name, PyNone)
    ELSE PyDict(<<>>)
ModeOf(jitter, name) == dict_get(ParsOf(jitter, name), "mode", PyStr("uniform")).v

\* what np.random.uniform(low=-1, high=1) and np.random.standard_normal()
\* can draw, as far as the model samples it: the lower end, the middle and
\* inner points of [-1, 1), and normal deviates within and beyond one sigma
UniformDraws == {0 - Fx(1), 0 - Den \div 2, 0, Den \div 2}
NormalDraws == {0 - Fx(2), 0, Fx(1)}

\* the numbers drawn for the column name: none is drawn for a column that
\* is not jittered or whose mode is unknown
DrawsFor(jitter, name) ==
    IF ~Jittered(jitter, name) THEN {0}
    ELSE IF ModeOf(jitter, name) = "uniform" THEN UniformDraws
    ELSE IF ModeOf(jitter, name) = "normal" THEN NormalDraws
    ELSE {0}

\* the numbers drawn during a call for the first n axes: for every axis
\* one number per row
RECURSIVE NoiseSeqs(_, _, _, _)
NoiseSeqs(jitter, names, rows, n) ==
    IF n = 0 THEN {<<>>}
    ELSE {Append(d, e) : d \in NoiseSeqs(jitter, names, rows, n - 1),
                         e \in [1..rows -> DrawsFor(jitter, names[n].v)]}

InitJitter ==
    /\ \E part \in JitterParts : df = <<part>>
    /\ \E n \in 1..Len(Columns) :
       \E names \in NameSeqs(n) :
          /\ axes = PyNames(names)
          /\ \/ \E counts \in {c \in [1..n -> 1..MaxCount] :
                                  \A i \in 1..n : c[i] \in AxisCounts(i)} :
                \E rngs \in {g \in [1..n -> ValidRanges] :
                                  \A i \in 1..n : g[i] \in AxisRanges(i)} :
                   /\ bins = MkBins("ints", counts, rngs, names)
                   /\ ranges = PyRanges(rngs)
             \/ \E e \in {g \in [1..n -> EdgeArrays] : \A i \in 1..n : g[i] \in AxisEdges(i)} :
                   /\ bins = PyEdges(e)
                   /\ ranges = PyNone
    /\ call = NoArgs
    /\ ret = NoCall
    /\ vals = <<>>
    /\ heap = <<>>

\* a caller invokes bin_partition with jitter on partition k, once; noise
\* holds the numbers that the random generator draws during the call
JitterPartition ==
    /\ call.op = "none"
    /\ \E k \in 1..Len(df), hist_mode \in {"numba", "numpy"}, jitter \in JitterSpecs,
          skip_test \in BOOLEAN :
       \E noise \in NoiseSeqs(jitter, axes.v, Len(df[k]), Len(axes.v)) :
        /\ call' = [NoArgs EXCEPT !.op = "bin_partition", !.k = k,
                                  !.hist_mode = hist_mode, !.skip_test = skip_test,
                                  !.jitter = jitter, !.noise = noise]
        /\ \E run \in {bin_partition_run(df[k], bins, axes, ranges, hist_mode, jitter,
                                          noise, skip_test)} :
              /\ ret' = run.ret
              /\ df' = [df EXCEPT ![k] = run.part]
              /\ vals' = run.vals
        /\ UNCHANGED <<bins, axes, ranges, heap>>

NextJitter == JitterPartition

SpecJitter == InitJitter /\ [][NextJitter]_vars

(* ----------------------- parse_config called --------------------------- *)

\* the four dicts passed to parse_config: config, folder_config, user_config
\* and default_config are the objects 1..4; object 4 + i is the dict nested
\* in dict i, if it has one
ConfigArgs == 1..4
Nested(i) == Cardinality(ConfigArgs) + i

\* the dict with the entries ea and eb for the keys "a" and "b"
MkDict(ea, eb) == [k \in {"a", "b"} |-> IF k = "a" THEN ea ELSE eb]

\* the entries of the dict i are its own: scalars carry the number i
InitConfig ==
    /\ df = <<>>
    /\ bins = PyNone
    /\ axes = PyNone
    /\ ranges = PyNone
    /\ call = NoArgs
    /\ ret = NoCall
    /\ vals = <<>>
    /\ \E a \in [ConfigArgs -> {"absent", "scalar", "dict"}] :
       \E b \in [ConfigArgs -> BOOLEAN] :
       \E na \in {f \in [ConfigArgs -> BOOLEAN] : \A i \in ConfigArgs : f[i] => a[i] = "dict"} :
       \E nb \in {f \in [ConfigArgs -> BOOLEAN] : \A i \in ConfigArgs : f[i] => a[i] = "dict"} :
          heap = [id \in 1..Nested(Cardinality(ConfigArgs)) |->
                    IF id \in ConfigArgs
                    THEN MkDict(IF a[id] = "absent" THEN Absent
                                ELSE IF a[id] = "scalar" THEN Scalar(id)
                                ELSE Ref(Nested(id)),
                                IF b[id] THEN Scalar(id) ELSE Absent)
                    ELSE LET i == id - Cardinality(ConfigArgs) IN
                         MkDict(IF na[i] THEN Scalar(i) ELSE Absent,
                                IF nb[i] THEN Scalar(i) ELSE Absent)]

\* a caller invokes parse_config(config, folder_config, user_config,
\* default_config) with the four dicts, once
ParseConfig ==
    /\ call.op = "none"
    /\ \E out \in {parse_config(heap, 1, 2, 3, 4)} :
        /\ ret' = [status |-> out.status, exc |-> out.exc, msg |-> out.msg,
                   value |-> out.value]
        /\ heap' = out.heap
    /\ call' = [NoArgs EXCEPT !.op = "parse_config"]
    /\ UNCHANGED <<df, bins, axes, ranges, vals>>

NextConfig == ParseConfig

SpecConfig == InitConfig /\ [][NextConfig]_vars

(* -------------------- complete_dictionary called ----------------------- *)

\* the two dicts passed to complete_dictionary: dictionary is object 1 and
\* base_dictionary object 2; the dict nested in dict i under "a", if there is
\* one, is object i + 2, and the dict nested in that one is object i + 4
CompleteArgs == 1..2
\* the depth to which the dicts are nested
Levels == 3
Below(id) == id + Cardinality(CompleteArgs)

\* the entry kinds of the dicts of one argument, level by level: a[l] is the
\* kind of the entry "a" of the dict of level l and b[l] tells whether it has
\* an entry "b"; the innermost level holds no dict, and a level below a key
\* that holds no dict is empty
Shapes ==
    {sh \in [a : [1..Levels -> {"absent", "scalar", "dict"}],
             b : [1..Levels -> BOOLEAN]] :
        /\ sh.a[Levels] # "dict"
        /\ \A l \in 2..Levels :
              sh.a[l - 1] # "dict" => sh.a[l] = "absent" /\ ~sh.b[l]}

\* the scalars of the dicts of argument i carry the number i
InitComplete ==
    /\ df = <<>>
    /\ bins = PyNone
    /\ axes = PyNone
    /\ ranges = PyNone
    /\ call = NoArgs
    /\ ret = NoCall
    /\ vals = <<>>
    /\ \E shape \in [CompleteArgs -> Shapes] :
          heap = [id \in 1..(Levels * Cardinality(CompleteArgs)) |->
                    LET i == ((id - 1) % Cardinality(CompleteArgs)) + 1
                        l == ((id - 1) \div Cardinality(CompleteArgs)) + 1
                    IN MkDict(IF shape[i].a[l] = "absent" THEN Absent
                              ELSE IF shape[i].a[l] = "scalar" THEN Scalar(i)
                              ELSE Ref(Below(id)),
                              IF shape[i].b[l] THEN Scalar(i) ELSE Absent)]

\* a caller invokes complete_dictionary(dictionary, base_dictionary), once
CompleteDictionary ==
    /\ call.op = "none"
    /\ \E out \in {complete_dictionary(heap, 1, 2)} :
        /\ ret' = [status |-> out.status, exc |-> out.exc, msg |-> out.msg,
                   value |-> out.value]
        /\ heap' = out.heap
    /\ call' = [NoArgs EXCEPT !.op = "complete_dictionary"]
    /\ UNCHANGED <<df, bins, axes, ranges, vals>>

NextComplete == CompleteDictionary

SpecComplete == InitComplete /\ [][NextComplete]_vars

(* ----------------------- MetaHandler.add called ------------------------ *)

\* the objects of a handler and of an entry to add: object 1 is the dict _m,
\* object 2 the dict that _m may hold under "n", object 3 the entry if it is
\* a dict, and objects 4 and 5 the dicts nested under "a" in 2 and 3
MetaDict == 1
OldEntry == 2
NewEntry == 3
Inner(id) == id + 2

\* the shapes of an entry: a scalar, or a dict whose "a" is absent, a scalar
\* or a dict of scalars, and whose "b" is absent or a scalar
EntryShapes ==
    {sh \in [t : {"scalar", "dict"}, a : {"absent", "scalar", "dict"}, b : BOOLEAN,
             ia : BOOLEAN, ib : BOOLEAN] :
        /\ sh.t = "scalar" => sh.a = "absent" /\ ~sh.b
        /\ sh.a # "dict" => ~sh.ia /\ ~sh.ib}

\* the dict objects id and Inner(id) of an entry of the shape sh, whose
\* scalars are the number id
EntryDict(sh, id) ==
    MkDict(IF sh.a = "absent" \/ sh.t = "scalar" THEN Absent
           ELSE IF sh.a = "scalar" THEN Scalar(id)
           ELSE Ref(Inner(id)),
           IF sh.b THEN Scalar(id) ELSE Absent)
InnerDict(sh, id) ==
    MkDict(IF sh.ia THEN Scalar(id) ELSE Absent, IF sh.ib THEN Scalar(id) ELSE Absent)

\* the handler holds nothing, a scalar or a dict under "n", and may hold a
\* scalar under "n_1"; "n_2" is free
InitMeta ==
    /\ df = <<>>
    /\ bins = PyNone
    /\ axes = PyNone
    /\ ranges = PyNone
    /\ ret = NoCall
    /\ vals = <<>>
    /\ \E held \in BOOLEAN, old \in EntryShapes, new \in EntryShapes, one \in BOOLEAN :
          /\ ~held => old.t = "scalar"
          /\ call = [NoArgs EXCEPT !.entry = IF new.t = "dict" THEN Ref(NewEntry)
                                             ELSE Scalar(NewEntry)]
          /\ heap = <<[k \in {"n", "n_1", "n_2"} |->
                          IF k = "n"
                          THEN IF ~held THEN Absent
                               ELSE IF old.t = "dict" THEN Ref(OldEntry)
                               ELSE Scalar(OldEntry)
                          ELSE IF k = "n_1" /\ one THEN Scalar(OldEntry)
                          ELSE Absent],
                      EntryDict(old, OldEntry),
                      EntryDict(new, NewEntry),
                      InnerDict(old, OldEntry),
                      InnerDict(new, NewEntry)>>

\* a caller invokes add(entry, "n", duplicate_policy) on the handler, once
Add ==
    /\ call.op = "none"
    /\ \E duplicate_policy \in {"raise", "overwrite", "merge", "append", "update"} :
       \E out \in {add(heap, MetaDict, call.entry, "n", duplicate_policy)} :
        /\ ret' = [status |-> out.status, exc |-> out.exc, msg |-> out.msg,
                   value |-> out.value]
        /\ heap' = out.heap
        /\ call' = [call EXCEPT !.op = "add", !.name = "n",
                                !.duplicate_policy = duplicate_policy]
    /\ UNCHANGED <<df, bins, axes, ranges, vals>>

NextMeta == Add

SpecMeta == InitMeta /\ [][NextMeta]_vars

(* ------------------------ bin_dataframe -------------------------------- *)

\* the partitions of the tables passed to bin_dataframe: an empty one, an
\* event below the ranges, one on the first edge, one on the last edge
FrameParts ==
    {<<>>, <<MkRow(0 - Den \div 2)>>, <<MkRow(Fx(0))>>, <<MkRow(Fx(MaxVal))>>}

\* the tables of 1..MaxParts partitions
Frames == UNION {[1..p -> FrameParts] : p \in 1..MaxParts}

\* bin specifications that callers get wrong: an entry that is neither a
\* count, a 3-tuple nor an array, and lists of 1..Len(Columns) + 1 counts or
\* arrays, which do not match every list of axes
BadBins ==
    {PyList(<<PyFloat(Den \div 2)>>), PyList(<<PyInt(2), PyFloat(Den \div 2)>>)}
        \cup {PyList([i \in 1..m |-> PyInt(2)]) : m \in 1..(Len(Columns) + 1)}
        \cup {PyEdges([i \in 1..m |-> <<Fx(0), Fx(MaxVal)>>]) : m \in 1..(Len(Columns) + 1)}

\* lists of axes that name a column "z" the partitions do not have
MissingNames == {<<"z">>, <<"x", "z">>}

Init ==
    /\ df \in Frames
    /\ \E n \in 1..Len(Columns) :
       \E names \in NameSeqs(n) \cup {s \in MissingNames : Len(s) = n} :
          /\ axes = PyNames(names)
          /\ \/ \E form \in {"int", "ints", "tuples", "dict"}, given \in BOOLEAN :
                \E counts \in {c \in [1..n -> 1..MaxCount] :
                                  \A i \in 1..n : c[i] \in AxisCounts(i)} :
                   /\ bins = MkBins(form, counts, [i \in 1..n |-> <<Fx(0), Fx(MaxVal)>>],
                                    names)
                   /\ ranges = IF given
                               THEN PyRanges([i \in 1..n |-> <<Fx(0), Fx(MaxVal)>>])
                               ELSE PyNone
             \/ \E e \in [1..n -> AxisEdges(2)] :
                   /\ bins = PyEdges(e)
                   /\ ranges = PyNone
             \/ \E b \in BadBins :
                   /\ bins = b
                   /\ ranges = PyRanges([i \in 1..Len(Columns) |-> <<Fx(0), Fx(MaxVal)>>])
    /\ call = NoArgs
    /\ ret = NoCall
    /\ vals = <<>>
    /\ heap = <<>>

\* two partitions, each with the five events 1/2, 3/2, ..., 9/2 at the bin
\* centers of 5 bins over (0, 5)
InitCenterScenario ==
    /\ df = [p \in 1..2 |-> [r \in 1..5 |-> MkRow(Fx(r) - Den \div 2)]]
    /\ bins = PyList(<<PyInt(5)>>)
    /\ axes = PyNames(<<"x">>)
    /\ ranges = PyRanges(<<<<Fx(0), Fx(5)>>>>)
    /\ call = NoArgs
    /\ ret = NoCall
    /\ vals = <<>>
    /\ heap = <<>>

\* a caller invokes bin_dataframe on the table, once
BinDataframe ==
    \E hist_mode \in {"numba", "numpy", "numexpr"},
       mode \in {"fast", "lean", "legacy", "slow"},
       n_cores \in 1..MaxCores, return_partitions \in BOOLEAN :
        /\ call.op = "none"
        /\ call' = [NoArgs EXCEPT !.op = "bin_dataframe", !.hist_mode = hist_mode,
                                  !.mode = mode, !.n_cores = n_cores,
                                  !.return_partitions = return_partitions]
        /\ ret' = bin_dataframe(df, bins, axes, ranges, hist_mode, mode, n_cores,
                                return_partitions)
        /\ UNCHANGED <<df, bins, axes, ranges, vals, heap>>

Next == BinDataframe

Spec == (Init \/ InitCenterScenario) /\ [][Next]_vars

(* ---------------------- claims on the normalizer ----------------------- *)

\* the last call was _simplify_binning_arguments
Simplified == call.op = "_simplify_binning_arguments"

\* the number of axis names the axes argument holds
NAxes == IF axes.t = "str" THEN 1 ELSE IF axes.t = "list" THEN Len(axes.v) ELSE 0

\* bins is given as integer counts: a single int, a list of ints or a list
\* of 3-tuples, with the axes (and the ranges the int forms need) to match
CountRequest ==
    \/ bins.t = "int" /\ NAxes >= 1 /\ ranges.t = "list" /\ Len(ranges.v) >= NAxes
    \/ bins.t = "list" /\ AllOfType(bins, "int") /\ NAxes = Len(bins.v)
        /\ ranges.t = "list" /\ Len(ranges.v) >= NAxes
    \/ bins.t = "list" /\ AllOfType(bins, "tuple") /\ NAxes = Len(bins.v)

\* the count and the (low, high) range requested for axis i
CountOf(i) ==
    IF bins.t = "int" THEN bins.v
    ELSE IF bins.v[i].t = "int" THEN bins.v[i].v
    ELSE bins.v[i].v[3].v
RangeOf(i) ==
    IF bins.t = "list" /\ bins.v[i].t = "tuple"
    THEN <<bins.v[i].v[1], bins.v[i].v[2]>>
    ELSE ranges.v[i].v

\* e is count + 1 evenly spaced points from lo to hi
EvenEdges(e, count, lo, hi) ==
    /\ Len(e) = count + 1
    /\ e[1] = lo
    /\ e[Len(e)] = hi
    /\ \A i \in 1..(Len(e) - 1) : (e[i + 1] - e[i]) * count = hi - lo
    /\ lo < hi => \A i \in 1..(Len(e) - 1) : e[i] < e[i + 1]

\* the same request with every 3-tuple split into a count and a range
SplitBins == PyList([i \in 1..Len(bins.v) |-> bins.v[i].v[3]])
SplitRanges == PyList([i \in 1..Len(bins.v) |-> PyTuple(RangeOf(i))])

AxesArgs ==
    {PyNone} \cup {PyStr(Columns[i]) : i \in 1..Len(Columns)}
        \cup UNION {{PyNames(s) : s \in NameSeqs(m)} : m \in 1..Len(Columns)}

\* the keys and the values of the dict bins, in insertion order
KeysOf == PyList([i \in 1..Len(bins.v) |-> bins.v[i][1]])
ValuesOf == PyList([i \in 1..Len(bins.v) |-> bins.v[i][2]])

\* C11: when bins is a mapping the normalizer takes the axis names from the
\* keys of the mapping, in insertion order, and the bin entries from its
\* values: the call ends as the call with the list of values and the list of
\* keys does, the axis names returned are the keys in their order, and every
\* other axes argument gives the same outcome.
C11_DictKeysAreAxes ==
    (Simplified /\ bins.t = "dict") =>
        /\ ret = _simplify_binning_arguments(ValuesOf, KeysOf, ranges)
        /\ ret.status = "returned" => ret.value.v[2] = KeysOf
        /\ \A a \in AxesArgs : _simplify_binning_arguments(bins, a, ranges) = ret

\* a dict of two keys was normalized to edge arrays while the caller passed
\* a different list of axis names
C11_Witness ==
    /\ Simplified /\ bins.t = "dict" /\ Len(bins.v) = 2
    /\ axes.t = "list" /\ axes # KeysOf
    /\ ret.status = "returned"

\* bins and axes are a canonical pair: a list of edge arrays and a list of
\* as many axis names
CanonicalRequest ==
    /\ bins.t = "list" /\ Len(bins.v) >= 1 /\ AllOfType(bins, "ndarray")
    /\ axes.t = "list" /\ Len(axes.v) = Len(bins.v)

\* C12: the normalizer returns a canonical pair (list of edge arrays, list
\* of axis names) as it is, the same arrays and the same names, whatever the
\* ranges; so normalizing the pair that a normalization returned gives that
\* pair again.
C12_Idempotent ==
    /\ (Simplified /\ CanonicalRequest) =>
            /\ ret.status = "returned"
            /\ ret.value.v[1] = bins
            /\ ret.value.v[2] = axes
    /\ (Simplified /\ ret.status = "returned") =>
            \A r \in {PyNone, ranges} :
                _simplify_binning_arguments(ret.value.v[1], ret.value.v[2], r) = ret

\* integer counts on two axes were normalized to edge arrays of several bins
C12_Witness ==
    /\ Simplified /\ ret.status = "returned"
    /\ bins.t = "list" /\ AllOfType(bins, "int") /\ Len(bins.v) = 2
    /\ \E i \in 1..2 : Len(ret.value.v[1].v[i].v) = MaxCount + 1

\* C15: called with axes omitted (None) and bins that are not a mapping, in
\* any of the forms single int, list of ints, list of 3-tuples and list of
\* arrays, the normalizer raises the AttributeError "Must define on which
\* axes to bin".
C15_AxesOmittedRejected ==
    (Simplified /\ axes = PyNone /\ bins.t # "dict") =>
        ret = RaiseMsg("AttributeError", "Must define on which axes to bin")

(* --------------------- claims on bin_partition ------------------------- *)

\* the last call was bin_partition with one of the two kernels
Binned == call.op = "bin_partition" /\ call.hist_mode \in {"numba", "numpy"}

\* the number of binned axes, the edges of axis i and its number of bins, as
\* the prepared arguments state them
NDim == Len(axes.v)
EdgesOf(i) ==
    IF bins.t = "int" THEN linspace(ranges.v[i].v[1], ranges.v[i].v[2], bins.v + 1)
    ELSE IF bins.v[i].t = "int"
         THEN linspace(ranges.v[i].v[1], ranges.v[i].v[2], bins.v[i].v + 1)
    ELSE bins.v[i].v
NBins(i) == Len(EdgesOf(i)) - 1

\* the value of row r of the binned partition on axis i
ValueOn(r, i) == df[call.k][r][get_loc(axes.v[i].v)]

\* row r lies within the edges of every axis, both ends included
InRange(r) ==
    \A i \in 1..NDim : EdgesOf(i)[1] <= ValueOn(r, i) /\ ValueOn(r, i) <= EdgesOf(i)[NBins(i) + 1]

\* the sum of the cells S of the array h
RECURSIVE SumCells(_, _)
SumCells(h, S) ==
    IF S = {} THEN 0
    ELSE LET c == CHOOSE c \in S : TRUE IN h.data[c] + SumCells(h, S \ {c})

OtherKernel == IF call.hist_mode = "numba" THEN "numpy" ELSE "numba"

JitterCall == call.op = "bin_partition" /\ call.jitter # PyNone

\* C18: a call of bin_partition with jitter leaves the partition of the
\* caller as it was: every column, the jittered axes included, holds after
\* the call the values it held before.
C18_JitterLeavesPartition == [][call'.jitter # PyNone => df' = df]_vars

\* a call with jitter binned a sample that differs from the values of the
\* partition on a jittered axis
C18_Witness ==
    /\ JitterCall /\ ret.status = "returned"
    /\ \E r \in 1..Len(vals) : \E i \in 1..NDim :
        Jittered(call.jitter, axes.v[i].v) /\ vals[r][i] # ValueOn(r, i)

\* axis i was jittered in mode "uniform" by the last call
UniformJitter(i) ==
    /\ JitterCall /\ vals # <<>>
    /\ Jittered(call.jitter, axes.v[i].v)
    /\ ModeOf(call.jitter, axes.v[i].v) = "uniform"

\* the amplitude that the jitter argument gives for axis i, None if it gives
\* none, and the width of the bins of axis i
AmplitudeOf(i) == dict_get(ParsOf(call.jitter, axes.v[i].v), "amplitude", PyNone)
WidthOf(i) == EdgesOf(i)[2] - EdgesOf(i)[1]

\* C19 as stated: for an axis jittered in mode "uniform" with the amplitude A
\* given in the jitter argument, the value binned for each event differs from
\* its raw value by an amount in [-A, +A]; with no amplitude given A is half
\* the bin width of the axis.
C19_WithinAmplitude ==
    \A i \in 1..NDim : UniformJitter(i) =>
        \A r \in 1..Len(vals) :
            Abs(vals[r][i] - ValueOn(r, i))
                <= IF AmplitudeOf(i) # PyNone THEN AmplitudeOf(i).v ELSE WidthOf(i) \div 2

\* C19 amended: for an axis jittered in mode "uniform" with the amplitude A
\* given in the jitter argument, the value binned for each event differs from
\* its raw value by an amount in [-A * w, +A * w], w being the bin width of
\* the axis; with no amplitude given A is 0.5, half a bin width.
C19_WithinAmplitudeTimesWidth ==
    \A i \in 1..NDim : UniformJitter(i) =>
        \A r \in 1..Len(vals) :
            Abs(vals[r][i] - ValueOn(r, i))
                <= Mul(IF AmplitudeOf(i) # PyNone THEN AmplitudeOf(i).v ELSE Den \div 2,
                       WidthOf(i))

\* an axis with bins wider than 1 was jittered with a given amplitude A, and
\* an event moved by A bin widths, which is more than A
C19_Witness ==
    \E i \in 1..NDim :
        /\ UniformJitter(i) /\ AmplitudeOf(i) # PyNone
        /\ WidthOf(i) > Fx(1)
        /\ \E r \in 1..Len(vals) :
            /\ Abs(vals[r][i] - ValueOn(r, i)) = Mul(AmplitudeOf(i).v, WidthOf(i))
            /\ Abs(vals[r][i] - ValueOn(r, i)) > AmplitudeOf(i).v

(* --------------------- claims on bin_dataframe ------------------------- *)

\* the last call was bin_dataframe
Framed == call.op = "bin_dataframe"

Modes == {"fast", "lean", "legacy"}

\* the canonical form of the bin specification of the call
Canon == _simplify_binning_arguments(bins, axes, ranges)
FrameDim == Len(Canon.value.v[1].v)
FrameEdges(i) == Canon.value.v[1].v[i].v
FrameAxes == [i \in 1..FrameDim |-> Canon.value.v[2].v[i].v]
FrameShape == [i \in 1..FrameDim |-> Len(FrameEdges(i)) - 1]

\* the bin specification is valid: it has a canonical form, whose edges are
\* strictly increasing
ValidSpec ==
    /\ Canon.status = "returned"
    /\ \A i \in 1..FrameDim :
        /\ Len(FrameEdges(i)) >= 2
        /\ \A j \in 1..(Len(FrameEdges(i)) - 1) : FrameEdges(i)[j] < FrameEdges(i)[j + 1]

\* a valid call that asks for the combined histogram
CombinedCall == Framed /\ ValidSpec /\ ~call.return_partitions /\ call.mode \in Modes

\* a valid call that asks for the stack of the partitions' histograms
StackCall == Framed /\ ValidSpec /\ call.return_partitions

\* event r of partition k lies within the edges of every axis
FrameInRange(k, r) ==
    \A i \in 1..FrameDim :
        /\ FrameEdges(i)[1] <= df[k][r][get_loc(FrameAxes[i])]
        /\ df[k][r][get_loc(FrameAxes[i])] <= FrameEdges(i)[Len(FrameEdges(i))]

\* the histogram of partition k alone, over the canonical edges
PartitionHist(k) ==
    bin_partition(df[k], PyEdges([i \in 1..FrameDim |-> FrameEdges(i)]),
                  PyNames(FrameAxes), PyNone, call.hist_mode, TRUE).value

\* C1: for a table of two or more partitions and a valid bin specification,
\* bin_dataframe returns the same combined histogram in the modes "fast",
\* "lean" and "legacy"; two partitions with 5 events each at the centers of
\* 5 bins over (0, 5) give 2 in every cell.
C1_ModesAgree ==
    (CombinedCall /\ Len(df) >= 2) =>
        /\ ret.status = "returned"
        /\ \A m \in Modes :
            bin_dataframe(df, bins, axes, ranges, call.hist_mode, m, call.n_cores,
                          FALSE) = ret
        /\ (bins = PyList(<<PyInt(5)>>) /\ Len(df[1]) = 5) =>
            \A c \in Cells(ret.value.shape) : ret.value.data[c] = 2

\* C2: the cells of the combined histogram sum to the number of events, over
\* all partitions, that lie within the range of every binned axis.
C2_Conservation ==
    CombinedCall =>
        /\ ret.status = "returned"
        /\ SumCells(ret.value, Cells(ret.value.shape))
             = Cardinality({e \in UNION {{<<k, r>> : r \in 1..Len(df[k])} : k \in 1..Len(df)} :
                               FrameInRange(e[1], e[2])})

\* C3: bin_dataframe returns the same combined histogram for every order of
\* the partitions of the table.
C3_OrderInvariance ==
    CombinedCall =>
        /\ ret.status = "returned"
        /\ \A p \in Permutations(1..Len(df)) :
            bin_dataframe([k \in 1..Len(df) |-> df[p[k]]], bins, axes, ranges,
                          call.hist_mode, call.mode, call.n_cores, FALSE) = ret

\* C4: with return_partitions an array with a trailing dimension "df_part" of
\* one entry per partition is returned, and its sum along that dimension is
\* the histogram that mode "fast" returns without return_partitions.
C4_StackSumsToFast ==
    StackCall =>
        /\ ret.status = "returned"
        /\ ret.value.shape = FrameShape \o <<Len(df)>>
        /\ ret.value.dims = FrameAxes \o <<"df_part">>
        /\ LET fast == bin_dataframe(df, bins, axes, ranges, call.hist_mode, "fast",
                                     call.n_cores, FALSE)
           IN /\ fast.status = "returned"
              /\ \A c \in Cells(FrameShape) :
                    SumCells(ret.value, {c \o <<k>> : k \in 1..Len(df)}) = fast.value.data[c]

\* C5: with return_partitions, slice k of the trailing dimension of the
\* returned array is the histogram of partition k of the table.
C5_StackKeepsOrder ==
    StackCall =>
        /\ ret.status = "returned"
        /\ \A k \in 1..Len(df) : \A c \in Cells(FrameShape) :
            ret.value.data[c \o <<k>>] = PartitionHist(k).data[c]

\* C6: the histogram returned has one cell per bin on every axis: its shape
\* is (count_1, ..., count_N) for canonical edge arrays of count_i + 1 edges,
\* the shape of every histogram that bin_partition returns.
C6_ShapeIsBinCounts ==
    CombinedCall =>
        /\ ret.status = "returned"
        /\ ret.value.shape = FrameShape
        /\ \A k \in 1..Len(df) : PartitionHist(k).shape = ret.value.shape

\* C7: the dimensions of the labeled array returned are the binned axes in
\* their order, and the coordinate of each axis holds its bin centers, one
\* per cell along that dimension.
C7_LabelledByBinCenters ==
    CombinedCall =>
        /\ ret.status = "returned"
        /\ ret.value.dims = FrameAxes
        /\ \A i \in 1..FrameDim :
            /\ ret.value.coords[FrameAxes[i]] = bin_edges_to_bin_centers(FrameEdges(i))
            /\ Len(ret.value.coords[FrameAxes[i]]) = ret.value.shape[i]

\* C13: bin_dataframe called with a valid bin specification, return_partitions
\* false and a mode other than "fast", "lean" and "legacy" raises the
\* ValueError of the dispatch over mode ("Could not interpret mode") and
\* returns no histogram, for every table.
C13_UnknownModeRejected ==
    (Framed /\ ValidSpec /\ ~call.return_partitions /\ call.mode \notin Modes) =>
        /\ ret.status = "raised"
        /\ ret.exc = "ValueError"
        /\ ret.msg = "Could not interpret mode"

\* the kernel task of partition k as bin_dataframe sets it up: bin_partition
\* on the canonical edges with skip_test
KernelTask(k) ==
    bin_partition(df[k], PyEdges([i \in 1..FrameDim |-> FrameEdges(i)]),
                  PyNames(FrameAxes), PyNone, call.hist_mode, TRUE)

\* C14: with a hist_mode other than "numba" and "numpy" bin_partition raises
\* the ValueError of the kernel dispatch ("No binning method available") and
\* returns no histogram, no kernel standing in for the unknown selector; a
\* call of bin_dataframe with that hist_mode is aborted by the same error.
C14_UnknownKernelRejected ==
    (Framed /\ ValidSpec /\ call.hist_mode \notin {"numba", "numpy"}) =>
        \A k \in 1..Len(df) :
            /\ KernelTask(k) = RaiseMsg("ValueError", "No binning method available")
            /\ ret = KernelTask(k)

\* the bin specification is invalid in one of three ways: integer counts
\* without ranges, an entry of a type that is no count, 3-tuple or array, or
\* a number of entries other than the number of axes
CountsWithoutRanges ==
    /\ ranges = PyNone
    /\ \/ bins.t = "int"
       \/ bins.t = "list" /\ Len(bins.v) >= 1 /\ AllOfType(bins, "int")
       \/ bins.t = "dict" /\ AllOfType(ValuesOf, "int")
UnresolvableEntry ==
    /\ bins.t = "list"
    /\ \E i \in 1..Len(bins.v) : bins.v[i].t \notin {"int", "tuple", "ndarray"}
CountMismatch == bins.t = "list" /\ axes.t = "list" /\ Len(bins.v) # Len(axes.v)
InvalidSpec == CountsWithoutRanges \/ UnresolvableEntry \/ CountMismatch

\* C16: with an invalid bin specification (integer counts without ranges, an
\* entry of unresolvable type, or a number of axes different from the number
\* of entries) bin_dataframe ends in its first statement with the exception
\* that _simplify_binning_arguments raises: no statement after the
\* normalization runs, so no partition is fetched and no kernel task is
\* dispatched, and nothing is returned.
C16_InvalidSpecRaisesFirst ==
    (Framed /\ InvalidSpec) =>
        /\ ret.status = "raised"
        /\ ret = _simplify_binning_arguments(bins, axes, ranges)
        /\ ret.exc \in {"AttributeError", "TypeError", "IndexError"}
        /\ ret.value = PyNone

\* bin_dataframe was called on a table of several partitions with two edge
\* arrays for one axis and raised the error of the mismatch
C16_Witness ==
    /\ Framed /\ CountMismatch /\ Len(df) >= 2
    /\ AllOfType(bins, "ndarray")
    /\ ret = RaiseMsg("AttributeError", "axes and bins must have the same number of elements")

\* the kernel task of partition k fails and no task of an earlier batch
\* does: bin_dataframe takes the partitions n_cores at a time
FirstFailure(k) ==
    /\ KernelTask(k).status = "raised"
    /\ \A j \in 1..Len(df) :
        KernelTask(j).status = "raised"
            => (j - 1) \div call.n_cores >= (k - 1) \div call.n_cores

\* C17: if the kernel task of a partition fails, bin_dataframe ends with the
\* error of a failed task of the first batch that has one and returns no
\* array, neither a combined histogram nor a stack.
C17_TaskFailureAborts ==
    (Framed /\ ValidSpec /\ \E k \in 1..Len(df) : KernelTask(k).status = "raised") =>
        /\ ret.status = "raised"
        /\ \E k \in 1..Len(df) : FirstFailure(k) /\ ret = KernelTask(k)

(* ------------------------ claims on parse_config ----------------------- *)

\* the content of the dict object id with every nested dict in place of its
\* reference: what a deep copy of the dict holds
RECURSIVE DeepValue(_, _)
DeepValue(h, id) ==
    [k \in DOMAIN h[id] |->
        IF h[id][k].t = "dict" THEN [t |-> "dict", v |-> DeepValue(h, h[id][k].v)]
        ELSE h[id][k]]

\* C20: a call of parse_config with dict arguments for config, folder_config,
\* user_config and default_config leaves each of them, nested dicts included,
\* equal to a deep copy taken before the call.
C20_ParseDoesNotModify ==
    [][call'.op = "parse_config" =>
        \A i \in ConfigArgs : DeepValue(heap', i) = DeepValue(heap, i)]_vars

(* -------------------- claims on complete_dictionary -------------------- *)

\* the recursive union of the dict contents x and y: a key of x keeps the
\* value of x, dicts under the same key are united, and y gives the keys that
\* x lacks
RECURSIVE RecursiveUnion(_, _)
RecursiveUnion(x, y) ==
    [k \in DOMAIN x |->
        IF x[k].t = "absent" THEN y[k]
        ELSE IF x[k].t = "dict" /\ y[k].t = "dict"
             THEN [t |-> "dict", v |-> RecursiveUnion(x[k].v, y[k].v)]
        ELSE x[k]]

\* some key, at any depth, holds a dict in y and a non-dict in x
RECURSIVE DictOnNonDict(_, _)
DictOnNonDict(x, y) ==
    \E k \in DOMAIN x :
        /\ y[k].t = "dict"
        /\ \/ x[k].t = "scalar"
           \/ x[k].t = "dict" /\ DictOnNonDict(x[k].v, y[k].v)

\* C21: complete_dictionary(dictionary, base_dictionary) raises ValueError
\* when a key holds a dict in base_dictionary and a non-dict in dictionary;
\* otherwise it returns dictionary, which then holds the recursive union of
\* both: every key of either, the values of dictionary for the keys it had,
\* those of base_dictionary for the keys it lacked, nested dicts merged key
\* by key.
C21_RecursiveUnion ==
    [][call'.op = "complete_dictionary" =>
        LET x == DeepValue(heap, 1)
            y == DeepValue(heap, 2)
        IN IF DictOnNonDict(x, y)
           THEN ret'.status = "raised" /\ ret'.exc = "ValueError"
           ELSE /\ ret'.status = "returned"
                /\ ret'.value = Ref(1)
                /\ DeepValue(heap', 1) = RecursiveUnion(x, y)]_vars

\* a call has merged two dicts that both hold "b" and hold a dict under "a":
\* dictionary kept its "b", and its nested dict got a "b" it lacked
C21_Witness ==
    /\ call.op = "complete_dictionary"
    /\ ret.status = "returned"
    /\ heap[1]["b"] = Scalar(1)
    /\ heap[2]["b"] = Scalar(2)
    /\ heap[1]["a"] = Ref(Below(1))
    /\ heap[2]["a"] = Ref(Below(2))
    /\ heap[Below(1)]["b"] = Scalar(2)
    /\ heap[Below(1)]["a"] = Ref(Below(Below(1)))
    /\ heap[Below(2)]["a"] = Ref(Below(Below(2)))
    /\ heap[Below(Below(1))]["a"] = Scalar(1)
    /\ heap[Below(Below(1))]["b"] = Scalar(2)

(* ---------------------- claims on MetaHandler.add ---------------------- *)

\* C22: add(entry, name, 'merge') for a name that holds a dict and an entry
\* that is a dict returns, and afterwards the dict under the name holds, for
\* every key of the entry, the value of the entry (dicts under the same key
\* merged the same way), and for every other key the value it held.
C22_MergeOverwrites ==
    [][(/\ call'.op = "add"
        /\ call'.duplicate_policy = "merge"
        /\ heap[MetaDict]["n"].t = "dict"
        /\ call'.entry.t = "dict")
       => /\ ret'.status = "returned"
          /\ heap'[MetaDict]["n"].t = "dict"
          /\ DeepValue(heap', heap'[MetaDict]["n"].v)
                = RecursiveUnion(DeepValue(heap, call'.entry.v),
                                 DeepValue(heap, heap[MetaDict]["n"].v))]_vars

(* ------------------ claims on the jitter of edge arrays ---------------- *)

\* the last call jittered axis i, whose bins are an array of explicit edges,
\* with prepared arguments
JitteredEdges(i) ==
    /\ JitterCall /\ call.skip_test
    /\ bins.t = "list" /\ Items(bins)[i].t = "ndarray"
    /\ Jittered(call.jitter, axes.v[i].v)

\* the widths of the bins of axis i, and whether they are all the same
BinWidths(i) ==
    {Items(bins)[i].v[j + 1] - Items(bins)[i].v[j] : j \in 1..(Len(Items(bins)[i].v) - 1)}
UniformEdges(i) == Cardinality(BinWidths(i)) = 1

\* C26: bin_partition with jitter on an axis whose explicit edges have two
\* bins of different widths fails with the assertion "bins along <axis> are
\* not uniform. Cannot apply jitter." and returns no histogram; with
\* uniformly spaced edges of every jittered axis, for any number of bins
\* >= 1, the jitter step completes and the call returns.
C26_NonUniformEdgesRejected ==
    /\ (\E i \in 1..Len(axes.v) : JitteredEdges(i) /\ ~UniformEdges(i)) =>
            /\ ret.status = "raised"
            /\ ret.exc = "AssertionError"
            /\ ret.msg = "bins are not uniform. Cannot apply jitter."
    /\ ((\E i \in 1..Len(axes.v) : JitteredEdges(i))
            /\ \A i \in 1..Len(axes.v) : JitteredEdges(i) => UniformEdges(i)) =>
            ret.status = "returned"

(* ------------------- claims on the normalization step ------------------ *)

\* C29: for every valid bin specification the normalization step of
\* bin_dataframe succeeds: the value that _simplify_binning_arguments returns
\* has exactly the three components (bins, axes, ranges) that the caller
\* unpacks, so the call does not fail right after the normalization.
C29_NormalizationUnpacks ==
    (Framed /\ ValidSpec) =>
        /\ Len(Items(Canon.value)) = 3
        /\ unpack(Canon.value, 3).status = "returned"
        /\ ~(ret.status = "raised" /\ ret.msg = "not enough values to unpack")

(* ------------------ claims on the main loop of bin_dataframe ----------- *)

\* a call of bin_dataframe with a valid bin specification and a known
\* combination mode, on a table whose every kernel task returns
LoopCall ==
    /\ Framed /\ ValidSpec /\ call.mode \in Modes
    /\ \A k \in 1..Len(df) : KernelTask(k).status = "returned"

\* the call with its log of the main loop, and the batches of the table:
\* ceil(P / n_cores), batch b holding the partitions (b - 1) * n_cores ..
\* b * n_cores - 1 that the table has, counted from 0
LoopRun ==
    bin_dataframe_run(df, bins, axes, ranges, call.hist_mode, call.mode, call.n_cores,
                      call.return_partitions)
NBatches == (Len(df) + call.n_cores - 1) \div call.n_cores
BatchIndices(b) ==
    {k \in 0..(Len(df) - 1) : k \div call.n_cores = b - 1}
TasksOf(entry) == {entry.tasks[j] : j \in 1..Len(entry.tasks)}

\* C23: batch barrier: every batch of the table is combined, with all kernel
\* tasks of the batch completed when its combination starts, and the kernel
\* tasks of a batch start only after the batch before has been combined.
C23_BatchBarrier ==
    LoopCall =>
        /\ Len(LoopRun.log) = NBatches
        /\ \A b \in 1..NBatches :
            /\ TasksOf(LoopRun.log[b]) = BatchIndices(b)
            /\ b > 1 => \A k \in TasksOf(LoopRun.log[b]) :
                            \A l \in TasksOf(LoopRun.log[b - 1]) : l < k

\* C24: with return_partitions false, in each of the modes "fast", "lean" and
\* "legacy", every batch is combined and no partial array of the batch, nor
\* of any batch before, is held once its combination step is over: what the
\* call holds besides the full result is bounded by one batch.
C24_BatchArraysReleased ==
    (LoopCall /\ ~call.return_partitions) =>
        /\ Len(LoopRun.log) = NBatches
        /\ \A b \in 1..NBatches : LoopRun.log[b].held = 0

\* C25: the full result is written by the orchestrator once per batch, after
\* the tasks of the batch have returned their arrays, and the slabs of the
\* first axis written for one batch do not overlap.
C25_DisjointWrites ==
    (LoopCall /\ ~call.return_partitions /\ call.mode \in {"fast", "lean"}) =>
        /\ Len(LoopRun.log) = NBatches
        /\ \A b \in 1..NBatches :
            LET writes == LoopRun.log[b].writes IN
            /\ writes # <<>>
            /\ \A i, j \in 1..Len(writes) :
                  i < j => writes[i][2] <= writes[j][1] \/ writes[j][2] <= writes[i][1]

\* C27: in mode "fast" the slabs [int(j * S / n_cores), int((j + 1) * S /
\* n_cores)) written for a batch, j = 0..n_cores - 1, follow one another from
\* row 0 to row S of the first axis, S being the number of bins of that axis,
\* and the histogram returned is the sum of the histograms of the partitions:
\* no row is dropped or added twice.
C27_SlabsCoverFirstAxis ==
    (LoopCall /\ ~call.return_partitions /\ call.mode = "fast") =>
        /\ ret.status = "returned"
        /\ \A b \in 1..NBatches :
            LET writes == LoopRun.log[b].writes IN
            /\ Len(writes) = call.n_cores
            /\ writes[1][1] = 0
            /\ writes[Len(writes)][2] = FrameShape[1]
            /\ \A j \in 1..(Len(writes) - 1) : writes[j][2] = writes[j + 1][1]
        /\ ret.value.shape = FrameShape
        /\ \A c \in Cells(FrameShape) :
            ret.value.data[c]
                = reduce_arraysum([k \in 1..Len(df) |-> KernelTask(k).value], Len(df)).data[c]

\* C28: over a call that returns, every partition index 0..P-1 is dispatched
\* to bin_partition exactly once, in batch floor(index / n_cores), and no
\* batch holds more than n_cores kernel tasks.
C28_EachPartitionOnce ==
    LoopCall =>
        /\ ret.status = "returned"
        /\ \A k \in 0..(Len(df) - 1) :
            Cardinality({e \in {<<b, j>> : b \in 1..Len(LoopRun.log), j \in 1..call.n_cores} :
                            /\ e[2] <= Len(LoopRun.log[e[1]].tasks)
                            /\ LoopRun.log[e[1]].tasks[e[2]] = k
                            /\ e[1] - 1 = k \div call.n_cores}) = 1
        /\ \A b \in 1..Len(LoopRun.log) : Len(LoopRun.log[b].tasks) <= call.n_cores

\* C30: for kernel tasks that each terminate, bin_dataframe terminates after
\* exactly ceil(P / n_cores) batches of its main loop, none of them run
\* twice, and then returns the labeled array.
C30_LoopTerminates ==
    LoopCall =>
        /\ Len(LoopRun.log) = NBatches
        /\ \A b, c \in 1..Len(LoopRun.log) :
              b # c => TasksOf(LoopRun.log[b]) \cap TasksOf(LoopRun.log[c]) = {}
        /\ ret.status = "returned"
        /\ ret.value.dims = IF call.return_partitions THEN Append(FrameAxes, "df_part")
                            ELSE FrameAxes

====
